---- MODULE Spec2Model ----
(***************************************************************************)
(* A model of starhop.py: the credential resolver, the JSON fetcher with   *)
(* its retry loop, the image selector, the greedy text wrapper, the        *)
(* wallpaper setter and the orchestrator main().                           *)
(*                                                                         *)
(* Strings are sequences of one-character strings, so that split(),        *)
(* strip(), upper() and join() are computed character by character.        *)
(***************************************************************************)
EXTENDS Integers, Sequences, FiniteSets, TLC

\* ------------------------------------------------------------------------
\* Bounds of the model
\* ------------------------------------------------------------------------
\* longest text handed to text_wrap in SpecWrap
MaxLen == 5
\* largest max_width handed to text_wrap in SpecWrap
MaxWidth == 5
\* largest max_height handed to text_wrap in SpecWrap (in units of one line)
MaxHeight == 2
\* widest advance of the glyph "W" among the fonts tried
MaxGlyph == 2

\* ------------------------------------------------------------------------
\* Strings
\* ------------------------------------------------------------------------
Whitespace == {" ", "\n", "\t"}

IsSpace(c) == c \in Whitespace

Last(s) == s[Len(s)]

Front(s) == SubSeq(s, 1, Len(s) - 1)

Max(a, b) == IF a >= b THEN a ELSE b

\* the characters of the texts tried in SpecWrap
TextChars == {"a", "W", " "}

SeqsUpTo(S, n) == UNION {[1..k -> S] : k \in 0..n}

\* sep.join(parts)
RECURSIVE Join(_, _)
Join(parts, sep) ==
    IF parts = <<>> THEN <<>>
    ELSE IF Len(parts) = 1 THEN parts[1]
    ELSE parts[1] \o sep \o Join(Tail(parts), sep)

\* str.split(' '): every single space separates, empty words are kept
RECURSIVE SplitAt(_, _, _)
SplitAt(s, cur, acc) ==
    IF s = <<>> THEN Append(acc, cur)
    ELSE IF IsSpace(Head(s)) THEN SplitAt(Tail(s), <<>>, Append(acc, cur))
    ELSE SplitAt(Tail(s), Append(cur, Head(s)), acc)

splitOnSpace(s) == IF s = <<>> THEN <<>> ELSE SplitAt(s, <<>>, <<>>)

\* str.split(): split on runs of whitespace, no empty words
split(s) == SelectSeq(SplitAt(s, <<>>, <<>>), LAMBDA w : w # <<>>)

\* the lines of a string, as str.split('\n') gives them
RECURSIVE SplitLines(_, _, _)
SplitLines(s, cur, acc) ==
    IF s = <<>> THEN Append(acc, cur)
    ELSE IF Head(s) = "\n" THEN SplitLines(Tail(s), <<>>, Append(acc, cur))
    ELSE SplitLines(Tail(s), Append(cur, Head(s)), acc)

LinesOf(s) == SplitLines(s, <<>>, <<>>)

\* ------------------------------------------------------------------------
\* text_wrap
\* ------------------------------------------------------------------------
VARIABLES text, font, max_width, max_height, words, wi, lines, wpc, wresult

wrapVars == <<text, font, max_width, max_height, words, wi, lines, wpc, wresult>>

\* fetch_json: its loop counter and position, the outcome of each attempt so
\* far, the sleeps taken, the requests sent, and what it returned or raised
VARIABLES url, attempt, fpc, hist, sleeps, net, ferr, fresult

fetchVars == <<url, attempt, fpc, hist, sleeps, net, ferr, fresult>>

\* main and set_wallpaper_macos_all
VARIABLES mpc, msg, cli_value, env_value, key_file, api_key, apod, explanation,
          apod_date, image_url, bg, today, out_path, files, no_wallpaper,
          platform, spc, wlog, run

mainVars == <<mpc, msg, cli_value, env_value, key_file, api_key, apod, explanation,
              apod_date, image_url, bg, today, out_path, files, no_wallpaper,
              platform, spc, wlog, run>>

vars == <<wrapVars, fetchVars, mainVars>>

Marker == <<".", ".", ".">>

\* the advance of one glyph under a font: "W" is the wide glyph
GlyphW(c, f) == IF c = "W" THEN f ELSE 1

RECURSIVE LineW(_, _)
LineW(s, f) == IF s = <<>> THEN 0 ELSE GlyphW(Head(s), f) + LineW(Tail(s), f)

RECURSIVE MaxLineW(_, _)
MaxLineW(ls, f) ==
    IF ls = <<>> THEN 0 ELSE Max(LineW(Head(ls), f), MaxLineW(Tail(ls), f))

\* _dims: the box of a multi-line string, one unit of height per line
dims(s, f) ==
    IF s = <<>> THEN [w |-> 0, h |-> 0]
    ELSE [w |-> MaxLineW(LinesOf(s), f), h |-> Len(LinesOf(s))]

RECURSIVE JoinEach(_)
JoinEach(ls) ==
    IF ls = <<>> THEN <<>> ELSE <<Join(Head(ls), <<" ">>)>> \o JoinEach(Tail(ls))

\* _composed: the non-empty lines joined by line breaks
composed(ls) == Join(JoinEach(SelectSeq(ls, LAMBDA l : l # <<>>)), <<"\n">>)

\* line 94: every line, empty ones included
returned(ls) == Join(JoinEach(ls), <<"\n">>)

\* lines[-1].append(word)
AppendLast(ls, word) == [ls EXCEPT ![Len(ls)] = Append(@, word)]

\* lines[-1].pop()
PopLast(ls) == [ls EXCEPT ![Len(ls)] = Front(@)]

\* lines[-1][-1] += '...'
MarkLast(ls) == [ls EXCEPT ![Len(ls)] = [@ EXCEPT ![Len(@)] = @ \o Marker]]

Tried == AppendLast(lines, words[wi])

\* moved = lines[-1].pop(); lines.append([moved])
Moved == Append(PopLast(Tried), <<words[wi]>>)

\* line 80
TooWide(ls) == dims(composed(ls), font).w > max_width

\* line 84
TooHigh(ls) == dims(composed(ls), font).h > max_height

\* lines 74-75
TW_Call ==
    /\ wpc = "call"
    /\ lines' = << <<>> >>
    /\ words' = split(text)
    /\ wi' = 1
    /\ wpc' = "loop"
    /\ UNCHANGED <<text, font, max_width, max_height, wresult, fetchVars, mainVars>>

\* lines 76-80: the word fits on the last line
TW_Fit ==
    /\ wpc = "loop" /\ wi <= Len(words)
    /\ ~TooWide(Tried)
    /\ lines' = Tried
    /\ wi' = wi + 1
    /\ UNCHANGED <<text, font, max_width, max_height, words, wpc, wresult,
                   fetchVars, mainVars>>

\* lines 80-84: the word starts a new line
TW_NewLine ==
    /\ wpc = "loop" /\ wi <= Len(words)
    /\ TooWide(Tried)
    /\ ~TooHigh(Moved)
    /\ lines' = Moved
    /\ wi' = wi + 1
    /\ UNCHANGED <<text, font, max_width, max_height, words, wpc, wresult,
                   fetchVars, mainVars>>

\* lines 84-86: at capacity, the new line is dropped and the marker appended
TW_Truncate ==
    /\ wpc = "loop" /\ wi <= Len(words)
    /\ TooWide(Tried)
    /\ TooHigh(Moved)
    /\ Last(PopLast(Tried)) # <<>>
    /\ lines' = MarkLast(PopLast(Tried))
    /\ wpc' = "trunc"
    /\ UNCHANGED <<text, font, max_width, max_height, words, wi, wresult,
                   fetchVars, mainVars>>

\* line 86 on an empty last line: lines[-1][-1] raises IndexError
TW_IndexError ==
    /\ wpc = "loop" /\ wi <= Len(words)
    /\ TooWide(Tried)
    /\ TooHigh(Moved)
    /\ Last(PopLast(Tried)) = <<>>
    /\ lines' = PopLast(Tried)
    /\ wpc' = "IndexError"
    /\ UNCHANGED <<text, font, max_width, max_height, words, wi, wresult,
                   fetchVars, mainVars>>

\* lines 87-92: one more word is dropped from the truncated line
TW_Shrink ==
    /\ wpc = "trunc"
    /\ TooWide(lines) /\ Len(Last(lines)) # 1
    /\ lines' = MarkLast(PopLast(lines))
    /\ UNCHANGED <<text, font, max_width, max_height, words, wi, wpc, wresult,
                   fetchVars, mainVars>>

\* lines 89-90, 93: the truncated line fits, or holds one word
TW_Break ==
    /\ wpc = "trunc"
    /\ ~TooWide(lines) \/ Len(Last(lines)) = 1
    /\ wpc' = "break"
    /\ UNCHANGED <<text, font, max_width, max_height, words, wi, lines, wresult,
                   fetchVars, mainVars>>

\* line 94
TW_Return ==
    /\ \/ wpc = "loop" /\ wi > Len(words)
       \/ wpc = "break"
    /\ wresult' = returned(lines)
    /\ wpc' = "done"
    /\ UNCHANGED <<text, font, max_width, max_height, words, wi, lines,
                   fetchVars, mainVars>>

TextWrap ==
    \/ TW_Call \/ TW_Fit \/ TW_NewLine \/ TW_Truncate \/ TW_IndexError
    \/ TW_Shrink \/ TW_Break \/ TW_Return

\* ------------------------------------------------------------------------
\* Optional values and JSON mappings
\* ------------------------------------------------------------------------
\* None is the empty tuple, a value v is <<v>>
None == <<>>

Some(v) == <<v>>

\* Python truthiness of an optional string
Truthy(o) == o # None /\ o[1] # <<>>

\* a or b
Or(a, b) == IF Truthy(a) THEN a ELSE b

\* dict.get(k)
Get(m, k) == IF k \in DOMAIN m THEN Some(m[k]) ELSE None

\* dict.get(k, default)
GetOr(m, k, d) == IF k \in DOMAIN m THEN m[k] ELSE d

IMAGE == <<"i", "m", "a", "g", "e">>

VIDEO == <<"v", "i", "d", "e", "o">>

\* ------------------------------------------------------------------------
\* Dates
\* ------------------------------------------------------------------------
\* the last day of January 2024 on which a run is tried
MaxDay == 2

Days == {<<2024, 1, d>> : d \in 1..MaxDay}

DigitChars == <<"0", "1", "2", "3", "4", "5", "6", "7", "8", "9">>

Digit(n) == DigitChars[n + 1]

Pad2(n) == <<Digit((n \div 10) % 10), Digit(n % 10)>>

Pad4(n) == <<Digit((n \div 1000) % 10), Digit((n \div 100) % 10)>> \o Pad2(n)

\* date.__str__: YYYY-MM-DD
IsoFormat(d) == Pad4(d[1]) \o <<"-">> \o Pad2(d[2]) \o <<"-">> \o Pad2(d[3])

\* ------------------------------------------------------------------------
\* The APOD responses tried
\* ------------------------------------------------------------------------
OptionsOf(S) == {None} \cup {Some(v) : v \in S}

ResponseShapes ==
    [media_type : OptionsOf({IMAGE, VIDEO}),
     hdurl : OptionsOf({<<>>, <<"H">>}),
     url : OptionsOf({<<>>, <<"U">>}),
     thumbnail_url : OptionsOf({<<>>, <<"T">>}),
     date : {Some(IsoFormat(d)) : d \in Days},
     explanation : {Some(<<"W", " ", "a", " ", "a">>)},
     title : {Some(<<"T">>)}]

\* the mapping that holds the keys of r that are present
AsMapping(r) == [k \in {j \in DOMAIN r : r[j] # None} |-> r[k][1]]

Responses == {AsMapping(r) : r \in ResponseShapes}

\* ------------------------------------------------------------------------
\* fetch_json
\* ------------------------------------------------------------------------
\* line 165: retries = 3, backoff = 1.5 = 3/2
retries == 3

BackoffNum == 3

BackoffDen == 2

\* line 174
Transient == {429, 500, 502, 503, 504}

\* the HTTP error statuses tried
HttpCodes == {403, 404, 429, 503}

\* the exceptions that are no HTTPError: urlopen's URLError, json.loads'
\* JSONDecodeError
OtherErrors == {"URLError", "JSONDecodeError"}

RECURSIVE Pow(_, _)
Pow(b, n) == IF n = 0 THEN 1 ELSE b * Pow(b, n - 1)

\* backoff ** attempt, as a fraction
SleepFor(n) == <<Pow(BackoffNum, n), Pow(BackoffDen, n)>>

\* line 174: e.code in (429, 500, 502, 503, 504)
IsTransientLoose(code) == code >= 400

IsTransient(code) == code \in Transient

\* lines 174, 182: attempt < retries - 1
MayRetryOffByOne(n) == n < retries

MayRetry(n) == n < retries - 1

HttpErr(code) == [kind |-> "http", code |-> code]

OtherErr(name) == [kind |-> "other", name |-> name]

Ok(body) == [kind |-> "ok", body |-> body]

NoErr == [kind |-> "none"]

\* line 169: one more GET of the API URL, and its outcome
Attempted(outcome) ==
    /\ fpc = "try" /\ attempt < retries
    /\ hist' = Append(hist, outcome)
    /\ net' = Append(net, "api")

\* lines 169-171: the request and the parse succeed
F_Return ==
    \E body \in Responses :
        /\ Attempted(Ok(body))
        /\ fresult' = body
        /\ fpc' = "returned"
        /\ UNCHANGED <<url, attempt, sleeps, ferr, wrapVars, mainVars>>

\* lines 172-178: a transient status before the last attempt
F_HttpRetry ==
    \E code \in HttpCodes :
        /\ Attempted(HttpErr(code))
        /\ IsTransient(code) /\ MayRetry(attempt)
        /\ sleeps' = Append(sleeps, SleepFor(attempt))
        /\ attempt' = attempt + 1
        /\ UNCHANGED <<url, fpc, ferr, fresult, wrapVars, mainVars>>

\* line 179: any other status, or the last attempt
F_HttpRaise ==
    \E code \in HttpCodes :
        /\ Attempted(HttpErr(code))
        /\ ~(IsTransient(code) /\ MayRetry(attempt))
        /\ ferr' = HttpErr(code)
        /\ fpc' = "raised"
        /\ UNCHANGED <<url, attempt, sleeps, fresult, wrapVars, mainVars>>

\* lines 180-186
F_OtherRetry ==
    \E e \in OtherErrors :
        /\ Attempted(OtherErr(e))
        /\ MayRetry(attempt)
        /\ sleeps' = Append(sleeps, SleepFor(attempt))
        /\ attempt' = attempt + 1
        /\ UNCHANGED <<url, fpc, ferr, fresult, wrapVars, mainVars>>

\* line 187
F_OtherRaise ==
    \E e \in OtherErrors :
        /\ Attempted(OtherErr(e))
        /\ ~MayRetry(attempt)
        /\ ferr' = OtherErr(e)
        /\ fpc' = "raised"
        /\ UNCHANGED <<url, attempt, sleeps, fresult, wrapVars, mainVars>>

FetchJson == F_Return \/ F_HttpRetry \/ F_HttpRaise \/ F_OtherRetry \/ F_OtherRaise

\* ------------------------------------------------------------------------
\* resolve_api_key
\* ------------------------------------------------------------------------
RECURSIVE LStrip(_)
LStrip(s) == IF s # <<>> /\ IsSpace(Head(s)) THEN LStrip(Tail(s)) ELSE s

RECURSIVE RStrip(_)
RStrip(s) == IF s # <<>> /\ IsSpace(Last(s)) THEN RStrip(Front(s)) ELSE s

\* str.strip()
Strip(s) == RStrip(LStrip(s))

LowerCase == <<"a", "b", "c", "d", "e", "f", "g", "h", "i", "j", "k", "l", "m",
               "n", "o", "p", "q", "r", "s", "t", "u", "v", "w", "x", "y", "z">>

UpperCase == <<"A", "B", "C", "D", "E", "F", "G", "H", "I", "J", "K", "L", "M",
               "N", "O", "P", "Q", "R", "S", "T", "U", "V", "W", "X", "Y", "Z">>

UpperChar(c) ==
    IF \E i \in 1..Len(LowerCase) : LowerCase[i] = c
    THEN UpperCase[CHOOSE i \in 1..Len(LowerCase) : LowerCase[i] = c]
    ELSE c

\* str.upper()
Upper(s) == [i \in 1..Len(s) |-> UpperChar(s[i])]

DEMO_KEY == <<"D", "E", "M", "O", "_", "K", "E", "Y">>

\* the --api-key values tried: no flag, empty, blank, padded key, the sentinel
CliValues ==
    {None, Some(<<>>), Some(<<" ">>), Some(<<" ", "k", "1", " ">>), Some(DEMO_KEY)}

\* the NASA_APOD_KEY values tried: unset, empty, a key, the padded sentinel
EnvValues ==
    {None, Some(<<>>), Some(<<"k", "2">>),
     Some(<<" ", "D", "e", "m", "o", "_", "K", "e", "y">>)}

\* the key file: missing, unreadable, or readable with a content
KeyFiles ==
    {<<"missing">>, <<"unreadable">>, <<"file", <<>>>>, <<"file", <<" ", "\n">>>>,
     <<"file", <<"k", "3", "\n">>>>,
     <<"file", <<"d", "e", "m", "o", "_", "k", "e", "y", "\n">>>>}

\* lines 43-60 with the file read first, the environment ignored
resolve_api_key_file_first(cli, env, kf) ==
    IF Strip(IF Truthy(cli) THEN cli[1] ELSE <<>>) # <<>>
    THEN [kind |-> "key", key |-> Strip(IF Truthy(cli) THEN cli[1] ELSE <<>>)]
    ELSE IF kf[1] = "file" /\ Strip(kf[2]) # <<>>
    THEN [kind |-> "key", key |-> Strip(kf[2])]
    ELSE IF Strip(IF env = None THEN <<>> ELSE env[1]) # <<>>
    THEN [kind |-> "key", key |-> Strip(IF env = None THEN <<>> ELSE env[1])]
    ELSE [kind |-> "exit"]

\* lines 36-60
resolve_api_key(cli, env, kf) ==
    LET k1 == Strip(IF Truthy(cli) THEN cli[1] ELSE <<>>)
        k2 == Strip(IF env = None THEN <<>> ELSE env[1])
    IN  IF k1 # <<>> THEN [kind |-> "key", key |-> k1]
        ELSE IF k2 # <<>> THEN [kind |-> "key", key |-> k2]
        ELSE IF kf[1] = "unreadable" THEN [kind |-> "raise"]
        ELSE IF kf[1] = "file" /\ Strip(kf[2]) # <<>>
        THEN [kind |-> "key", key |-> Strip(kf[2])]
        ELSE [kind |-> "exit"]

\* ------------------------------------------------------------------------
\* pick_image_url, build_apod_url, the output path
\* ------------------------------------------------------------------------
\* lines 191-196 with the standard url preferred to the HD one
pick_image_url_std_first(m) ==
    IF Get(m, "media_type") = Some(IMAGE)
    THEN Or(Get(m, "url"), Get(m, "hdurl"))
    ELSE Or(Get(m, "thumbnail_url"), Get(m, "url"))

\* lines 191-196
pick_image_url(m) ==
    IF Get(m, "media_type") = Some(IMAGE)
    THEN Or(Get(m, "hdurl"), Get(m, "url"))
    ELSE Or(Get(m, "thumbnail_url"), Get(m, "url"))

\* lines 155-162
build_apod_url(key) == [base |-> "API_BASE", api_key |-> key, thumbs |-> "true"]

PathOf(iso) == <<"~/Pictures/apod/">> \o iso \o <<".png">>

\* the path named after the date of the response
OutPathOfResponse(now, response_date) ==
    PathOf(IF response_date = None THEN <<"None">> ELSE response_date[1])

\* lines 283-284: the path named after date.today()
OutPath(now, response_date) == PathOf(IsoFormat(now))

\* line 216, compared without upper()
IsSentinelExact(key) == key = DEMO_KEY

\* line 216
IsSentinel(key) == Upper(key) = DEMO_KEY

\* ------------------------------------------------------------------------
\* main and set_wallpaper_macos_all
\* ------------------------------------------------------------------------
\* the runs made one after the other on the same machine
MaxRuns == 2

\* the sizes (width, height) of the downloaded images tried
ImageSizes == {<<4, 1>>, <<16, 2>>, <<20, 3>>}

\* the values the locals hold before they are assigned
IdleWrap ==
    /\ text = <<>> /\ font = 1 /\ max_width = 0 /\ max_height = 0
    /\ words = <<>> /\ wi = 1 /\ lines = <<>> /\ wpc = "idle" /\ wresult = <<>>

IdleFetch ==
    /\ url = None /\ attempt = 0 /\ fpc = "idle" /\ hist = <<>> /\ sleeps = <<>>
    /\ net = <<>> /\ ferr = NoErr /\ fresult = <<>>

IdleMain ==
    /\ msg = <<>> /\ cli_value = None /\ env_value = None
    /\ key_file = <<"unread">> /\ api_key = <<>> /\ apod = <<>>
    /\ explanation = <<>> /\ apod_date = None /\ image_url = None
    /\ bg = <<0, 0>> /\ out_path = None /\ no_wallpaper = FALSE
    /\ platform = "unread" /\ spc = "idle" /\ wlog = <<>>

\* a new process: every local is unassigned again
Reset ==
    /\ text' = <<>> /\ font' = 1 /\ max_width' = 0 /\ max_height' = 0
    /\ words' = <<>> /\ wi' = 1 /\ lines' = <<>> /\ wpc' = "idle" /\ wresult' = <<>>
    /\ url' = None /\ attempt' = 0 /\ fpc' = "idle" /\ hist' = <<>> /\ sleeps' = <<>>
    /\ net' = <<>> /\ ferr' = NoErr /\ fresult' = <<>>
    /\ msg' = <<>> /\ cli_value' = None /\ env_value' = None
    /\ key_file' = <<"unread">> /\ api_key' = <<>> /\ apod' = <<>>
    /\ explanation' = <<>> /\ apod_date' = None /\ image_url' = None
    /\ bg' = <<0, 0>> /\ out_path' = None /\ no_wallpaper' = FALSE
    /\ platform' = "unread" /\ spc' = "idle" /\ wlog' = <<>>

\* sys.exit(message)
Exit(message) == mpc' = "exit" /\ msg' = message

\* an exception leaves main: lines 297-305 translate HTTP 403 and 429
Raise(e) ==
    IF e.kind = "http" /\ e.code = 403 THEN Exit(<<"HTTP 403: Check your API key">>)
    ELSE IF e.kind = "http" /\ e.code = 429 THEN Exit(<<"HTTP 429: Rate limited">>)
    ELSE mpc' = "raised" /\ msg' = <<"Traceback", e>>

\* line 214: a key is found
M_ResolveKey ==
    \E cli \in CliValues, env \in EnvValues, kf \in KeyFiles :
        /\ mpc = "start"
        /\ resolve_api_key(cli, env, kf).kind = "key"
        /\ cli_value' = cli /\ env_value' = env /\ key_file' = kf
        /\ api_key' = resolve_api_key(cli, env, kf).key
        /\ mpc' = "resolved"
        /\ UNCHANGED <<msg, apod, explanation, apod_date, image_url, bg, today,
                       out_path, files, no_wallpaper, platform, spc, wlog, run,
                       wrapVars, fetchVars>>

\* lines 57-60: no key anywhere
M_ResolveExit ==
    \E cli \in CliValues, env \in EnvValues, kf \in KeyFiles :
        /\ mpc = "start"
        /\ resolve_api_key(cli, env, kf).kind = "exit"
        /\ cli_value' = cli /\ env_value' = env /\ key_file' = kf
        /\ Exit(<<"NASA API key is required">>)
        /\ UNCHANGED <<api_key, apod, explanation, apod_date, image_url, bg, today,
                       out_path, files, no_wallpaper, platform, spc, wlog, run,
                       wrapVars, fetchVars>>

\* lines 48-54: open() or read() raises something other than FileNotFoundError
M_ResolveRaise ==
    \E cli \in CliValues, env \in EnvValues, kf \in KeyFiles :
        /\ mpc = "start"
        /\ resolve_api_key(cli, env, kf).kind = "raise"
        /\ cli_value' = cli /\ env_value' = env /\ key_file' = kf
        /\ Raise(OtherErr("OSError"))
        /\ UNCHANGED <<api_key, apod, explanation, apod_date, image_url, bg, today,
                       out_path, files, no_wallpaper, platform, spc, wlog, run,
                       wrapVars, fetchVars>>

\* lines 216-217
M_RejectDemo ==
    /\ mpc = "resolved"
    /\ IsSentinel(api_key)
    /\ Exit(<<"DEMO_KEY is not allowed">>)
    /\ UNCHANGED <<cli_value, env_value, key_file, api_key, apod, explanation,
                   apod_date, image_url, bg, today, out_path, files, no_wallpaper,
                   platform, spc, wlog, run, wrapVars, fetchVars>>

\* lines 223-225: the URL is built and fetch_json entered; resolve_api_key's
\* inputs are not read again
M_BuildUrl ==
    /\ mpc = "resolved"
    /\ ~IsSentinel(api_key)
    /\ url' = Some(build_apod_url(api_key))
    /\ fpc' = "try" /\ attempt' = 0
    /\ mpc' = "fetching"
    /\ cli_value' = None /\ env_value' = None /\ key_file' = <<"unread">>
    /\ UNCHANGED <<msg, api_key, apod, explanation, apod_date, image_url, bg, today,
                   out_path, files, no_wallpaper, platform, spc, wlog, run,
                   hist, sleeps, net, ferr, fresult, wrapVars>>

\* line 225: fetch_json raised
M_FetchRaised ==
    /\ mpc = "fetching" /\ fpc = "raised"
    /\ Raise(ferr)
    /\ fpc' = "idle"
    /\ UNCHANGED <<cli_value, env_value, key_file, api_key, apod, explanation,
                   apod_date, image_url, bg, today, out_path, files, no_wallpaper,
                   platform, spc, wlog, run, url, attempt, hist, sleeps, net, ferr,
                   fresult, wrapVars>>

\* lines 225-233: the fields are read and an image URL is picked; fetch_json's
\* locals are gone, the key and the URL are not read again
Extracted ==
    /\ mpc = "fetching" /\ fpc = "returned"
    /\ apod' = fresult
    /\ explanation' = GetOr(fresult, "explanation", <<>>)
    /\ apod_date' = Get(fresult, "date")
    /\ image_url' = pick_image_url(fresult)
    /\ fpc' = "idle" /\ attempt' = 0 /\ hist' = <<>> /\ fresult' = <<>>
    /\ url' = None /\ api_key' = <<>>
    /\ UNCHANGED <<cli_value, env_value, key_file, bg, today, out_path, files,
                   no_wallpaper, platform, spc, wlog, run, sleeps, net, ferr,
                   wrapVars>>

M_Pick ==
    /\ Extracted
    /\ Truthy(pick_image_url(fresult))
    /\ mpc' = "picked"
    /\ UNCHANGED msg

\* lines 234-235
M_NoImage ==
    /\ Extracted
    /\ ~Truthy(pick_image_url(fresult))
    /\ Exit(<<"No downloadable image URL found", Get(fresult, "media_type"),
              Get(fresult, "date")>>)

\* lines 238-244: the image is downloaded and opened; the response is not read
\* again
M_Download ==
    \E size \in ImageSizes :
        /\ mpc = "picked"
        /\ net' = Append(net, "image")
        /\ bg' = size
        /\ apod' = <<>>
        /\ mpc' = "downloaded"
        /\ UNCHANGED <<msg, cli_value, env_value, key_file, api_key, explanation,
                       apod_date, image_url, today, out_path, files, no_wallpaper,
                       platform, spc, wlog, run, url, attempt, fpc, hist, sleeps,
                       ferr, fresult, wrapVars>>

\* line 238: urlopen raises
M_DownloadRaise ==
    \E e \in {HttpErr(c) : c \in HttpCodes} \cup {OtherErr("URLError")} :
        /\ mpc = "picked"
        /\ net' = Append(net, "image")
        /\ Raise(e)
        /\ UNCHANGED <<cli_value, env_value, key_file, api_key, apod, explanation,
                       apod_date, image_url, bg, today, out_path, files,
                       no_wallpaper, platform, spc, wlog, run, url, attempt, fpc,
                       hist, sleeps, ferr, fresult, wrapVars>>

\* lines 245-273: the fonts are loaded (whichever of the three loads) and
\* text_wrap entered with a box of 25% by 70% of the image
M_Render ==
    \E f \in 1..MaxGlyph :
        /\ mpc = "downloaded"
        /\ text' = explanation
        /\ font' = f
        /\ max_width' = (bg[1] * 25) \div 100
        /\ max_height' = (bg[2] * 7) \div 10
        /\ wpc' = "call"
        /\ mpc' = "wrapping"
        /\ UNCHANGED <<words, wi, lines, wresult, msg, cli_value, env_value,
                       key_file, api_key, apod, explanation, apod_date, image_url,
                       bg, today, out_path, files, no_wallpaper, platform, spc,
                       wlog, run, fetchVars>>

\* line 267: text_wrap raised
M_WrapRaised ==
    /\ mpc = "wrapping" /\ wpc = "IndexError"
    /\ Raise(OtherErr("IndexError"))
    /\ wpc' = "idle"
    /\ UNCHANGED <<text, font, max_width, max_height, words, wi, lines, wresult,
                   cli_value, env_value, key_file, api_key, apod, explanation,
                   apod_date, image_url, bg, today, out_path, files, no_wallpaper,
                   platform, spc, wlog, run, fetchVars>>

\* lines 276-287: the caption is drawn and the image saved under today's date
M_Save ==
    /\ mpc = "wrapping" /\ wpc = "done"
    /\ LET p == OutPath(today, apod_date)
       IN  /\ out_path' = Some(p)
           /\ files' = [q \in DOMAIN files \cup {p} |->
                           IF q = p
                           THEN (IF p \in DOMAIN files THEN files[p] + 1 ELSE 1)
                           ELSE files[q]]
    /\ wpc' = "idle" /\ text' = <<>> /\ words' = <<>> /\ lines' = <<>> /\ wi' = 1
    /\ mpc' = "saved"
    /\ UNCHANGED <<font, max_width, max_height, wresult, msg, cli_value, env_value,
                   key_file, api_key, apod, explanation, apod_date, image_url, bg,
                   today, no_wallpaper, platform, spc, wlog, run, fetchVars>>

\* lines 289-291
M_CallWallpaper ==
    /\ mpc = "saved"
    /\ no_wallpaper' = FALSE /\ platform' = "darwin"
    /\ spc' = "step1"
    /\ mpc' = "wallpaper"
    /\ UNCHANGED <<msg, cli_value, env_value, key_file, api_key, apod, explanation,
                   apod_date, image_url, bg, today, out_path, files, wlog, run,
                   wrapVars, fetchVars>>

\* lines 289, 292-293: --no-wallpaper, or another platform
M_SkipWallpaper ==
    \E nw \in BOOLEAN, pf \in {"darwin", "linux"} :
        /\ mpc = "saved"
        /\ nw \/ pf # "darwin"
        /\ no_wallpaper' = nw /\ platform' = pf
        /\ mpc' = "done"
        /\ UNCHANGED <<msg, cli_value, env_value, key_file, api_key, apod,
                       explanation, apod_date, image_url, bg, today, out_path,
                       files, spc, wlog, run, wrapVars, fetchVars>>

\* lines 119-125: osascript ends, with status zero or not
W_Script ==
    \E out \in {"applied", "CalledProcessError"} :
        /\ spc = "step1"
        /\ wlog' = Append(wlog, <<"AppleScript", out>>)
        /\ spc' = "step2"
        /\ UNCHANGED <<mpc, msg, cli_value, env_value, key_file, api_key, apod,
                       explanation, apod_date, image_url, bg, today, out_path,
                       files, no_wallpaper, platform, run, wrapVars, fetchVars>>

\* lines 119-124: subprocess.run raises something other than
\* CalledProcessError (the process cannot be started, its output cannot be
\* decoded): no handler
W_ScriptRaise ==
    \E e \in {"OSError", "UnicodeDecodeError"} :
        /\ spc = "step1"
        /\ spc' = "raised"
        /\ Raise(OtherErr(e))
        /\ UNCHANGED <<cli_value, env_value, key_file, api_key, apod, explanation,
                       apod_date, image_url, bg, today, out_path, files,
                       no_wallpaper, platform, wlog, run, wrapVars, fetchVars>>

\* lines 128-151: AppKit applies the style, or anything raised is caught
W_Style ==
    \E out \in {"applied", "ImportError", "RuntimeError"} :
        /\ spc = "step2"
        /\ wlog' = Append(wlog, <<"PyObjC", out>>)
        /\ spc' = "returned"
        /\ UNCHANGED <<mpc, msg, cli_value, env_value, key_file, api_key, apod,
                       explanation, apod_date, image_url, bg, today, out_path,
                       files, no_wallpaper, platform, run, wrapVars, fetchVars>>

\* line 291: set_wallpaper_macos_all returned
M_WallpaperDone ==
    /\ mpc = "wallpaper" /\ spc = "returned"
    /\ mpc' = "done"
    /\ UNCHANGED <<msg, cli_value, env_value, key_file, api_key, apod, explanation,
                   apod_date, image_url, bg, today, out_path, files, no_wallpaper,
                   platform, spc, wlog, run, wrapVars, fetchVars>>

\* the program is run again, the same day or a later one
M_Rerun ==
    \E d \in Days :
        /\ mpc \in {"exit", "raised", "done"}
        /\ run < MaxRuns
        /\ d[3] >= today[3]
        /\ run' = run + 1
        /\ today' = d
        /\ mpc' = "start"
        /\ Reset
        /\ UNCHANGED files

Main ==
    \/ M_ResolveKey \/ M_ResolveExit \/ M_ResolveRaise \/ M_RejectDemo
    \/ M_BuildUrl \/ M_FetchRaised \/ M_Pick \/ M_NoImage \/ M_Download
    \/ M_DownloadRaise \/ M_Render \/ M_WrapRaised \/ M_Save
    \/ M_CallWallpaper \/ M_SkipWallpaper \/ W_Script \/ W_ScriptRaise
    \/ W_Style \/ M_WallpaperDone \/ M_Rerun

\* ------------------------------------------------------------------------
\* Specifications
\* ------------------------------------------------------------------------
\* text_wrap alone, on every text, font and box within the bounds
InitWrap ==
    /\ text \in SeqsUpTo(TextChars, MaxLen)
    /\ font \in 1..MaxGlyph
    /\ max_width \in 1..MaxWidth
    /\ max_height \in 0..MaxHeight
    /\ words = <<>> /\ wi = 1 /\ lines = <<>> /\ wpc = "call" /\ wresult = <<>>
    /\ IdleFetch /\ IdleMain
    /\ mpc = "idle" /\ today = <<2024, 1, 1>> /\ files = <<>> /\ run = 1

SpecWrap == InitWrap /\ [][TextWrap]_vars

\* fetch_json alone
InitFetch ==
    /\ url = Some(build_apod_url(<<"k", "1">>))
    /\ attempt = 0 /\ fpc = "try" /\ hist = <<>> /\ sleeps = <<>>
    /\ net = <<>> /\ ferr = NoErr /\ fresult = <<>>
    /\ IdleWrap /\ IdleMain
    /\ mpc = "idle" /\ today = <<2024, 1, 1>> /\ files = <<>> /\ run = 1

SpecFetch == InitFetch /\ [][FetchJson]_vars

\* the whole program, run after run
Init ==
    /\ IdleWrap /\ IdleFetch /\ IdleMain
    /\ mpc = "start" /\ today \in Days /\ files = <<>> /\ run = 1

Next == Main \/ FetchJson \/ TextWrap

Spec == Init /\ [][Next]_vars

\* ------------------------------------------------------------------------
\* Properties of text_wrap (SpecWrap)
\* ------------------------------------------------------------------------
EndsWith(s, suffix) ==
    Len(s) >= Len(suffix) /\ SubSeq(s, Len(s) - Len(suffix) + 1, Len(s)) = suffix

Contains(s, x) == \E i \in 1..Len(s) : s[i] = x

\* s without leading and trailing whitespace, each run of whitespace inside it
\* one space
RECURSIVE Collapse(_, _, _)
Collapse(s, out, gap) ==
    IF s = <<>> THEN out
    ELSE IF IsSpace(Head(s)) THEN Collapse(Tail(s), out, out # <<>>)
    ELSE Collapse(Tail(s), out \o (IF gap THEN <<" ">> ELSE <<>>) \o <<Head(s)>>, FALSE)

Collapsed(s) == Collapse(s, <<>>, FALSE)

ExceedsBox == dims(text, font).w > max_width /\ dims(text, font).h > max_height

\* C1: when the text exceeds both max_width and max_height, the string
\* text_wrap returns ends with the marker '...' and every line of it measures
\* at most max_width. Stated for the texts whose words are separated by single
\* spaces, so that no blank is measured that text_wrap drops.
C1_TruncatedFits ==
    (wpc = "done" /\ ExceedsBox /\ text = Collapsed(text)) =>
        /\ EndsWith(wresult, Marker)
        /\ \A i \in 1..Len(LinesOf(wresult)) :
               LineW(LinesOf(wresult)[i], font) <= max_width

\* C10: text_wrap never raises, also when the first word is wider than
\* max_width and higher than max_height, and returns the empty string for the
\* empty text.
C10_Total ==
    /\ wpc # "IndexError"
    /\ (wpc = "done" /\ text = <<>>) => wresult = <<>>

\* C6 as stated: a text measured narrower than max_width is returned unchanged.
C6_Unchanged ==
    (wpc = "done" /\ dims(text, font).w < max_width) => wresult = text

\* C6 as amended: a text measured narrower than max_width is returned with no
\* line break, its words joined by single spaces: it is the text without its
\* leading and trailing whitespace and with each inner run of whitespace
\* collapsed to one space, so equal to the text when the text has that form.
C6_SingleLine ==
    (wpc = "done" /\ dims(text, font).w < max_width) =>
        /\ ~Contains(wresult, "\n")
        /\ wresult = Collapsed(text)
        /\ (text = Collapsed(text) => wresult = text)

\* a narrow text of two words with a doubled space has been wrapped
C6_Witness ==
    /\ wpc = "done"
    /\ dims(text, font).w < max_width
    /\ Len(words) = 2
    /\ text # Collapsed(text)
    /\ wresult # text

\* ------------------------------------------------------------------------
\* Properties of fetch_json (SpecFetch)
\* ------------------------------------------------------------------------
Retryable(o) ==
    \/ o.kind = "other"
    \/ o.kind = "http" /\ o.code \in {429, 500, 502, 503, 504}

Permanent(o) == o.kind = "http" /\ o.code \notin {429, 500, 502, 503, 504}

Failures == {i \in 1..Len(hist) : hist[i].kind # "ok"}

\* 1.5^0, 1.5^1, 1.5^2 as fractions
ExpectedSleeps == << <<1, 1>>, <<3, 2>>, <<9, 4>> >>

\* C2: when every failure is a transient status or a non-HTTP exception, at
\* most `retries` requests are made; k failures followed by a success give
\* exactly k sleeps, the i-th of 1.5^i seconds, and the parsed JSON of the
\* successful attempt; `retries` failures give retries-1 sleeps and the last
\* error.
C2_BoundedRetry ==
    /\ Len(net) <= 3
    /\ Len(net) = Len(hist)
    /\ (\A i \in Failures : Retryable(hist[i])) =>
           /\ Len(sleeps) <= 2
           /\ \A i \in 1..Len(sleeps) : sleeps[i] = ExpectedSleeps[i]
           /\ fpc = "returned" =>
                  /\ Cardinality(Failures) = Len(hist) - 1
                  /\ Len(sleeps) = Cardinality(Failures)
                  /\ fresult = Last(hist).body
           /\ fpc = "raised" =>
                  /\ Cardinality(Failures) = 3
                  /\ Len(sleeps) = 2
                  /\ ferr = Last(hist)

\* 503 twice, then a success
C2_Witness ==
    /\ fpc = "returned"
    /\ Len(hist) = 3
    /\ hist[1] = HttpErr(503) /\ hist[2] = HttpErr(503)
    /\ Len(sleeps) = 2

\* C7: an attempt that fails with a status outside {429, 500, 502, 503, 504}
\* is the last one: its error is raised, no sleep follows it and no further
\* request is made, whatever the attempt number.
C7_NoRetry ==
    \A i \in 1..Len(hist) :
        Permanent(hist[i]) =>
            /\ i = Len(hist)
            /\ fpc = "raised"
            /\ ferr = hist[i]
            /\ Len(sleeps) = i - 1
            /\ Len(net) = i

\* 404 on the second attempt
C7_Witness ==
    /\ fpc = "raised"
    /\ Len(hist) = 2
    /\ hist[2] = HttpErr(404)

\* ------------------------------------------------------------------------
\* Properties of main (Spec)
\* ------------------------------------------------------------------------
\* the run ended with this message
Said(m) == msg # <<>> /\ msg[1] = m

\* resolve_api_key has just been called with the recorded inputs
JustResolved == key_file # <<"unread">>

\* the first non-empty of the candidates, None when there is none
FirstNonEmpty(cands) ==
    IF \E i \in 1..Len(cands) : cands[i] # <<>>
    THEN Some(cands[CHOOSE i \in 1..Len(cands) :
                        /\ cands[i] # <<>>
                        /\ \A j \in 1..(i - 1) : cands[j] = <<>>])
    ELSE None

Given(o) == IF o = None THEN <<>> ELSE o[1]

FileText == IF key_file[1] = "file" THEN key_file[2] ELSE <<>>

\* the key is `want`, or the run ended with the guidance message
ResolvedTo(want) ==
    IF want # None
    THEN /\ api_key = want[1]
         /\ mpc \in {"resolved", "exit"}
         /\ ~Said("NASA API key is required")
    ELSE /\ api_key = <<>>
         /\ mpc = "exit"
         /\ Said("NASA API key is required")

SameIgnoringCase(a, b) ==
    Len(a) = Len(b) /\ \A i \in 1..Len(a) : UpperChar(a[i]) = UpperChar(b[i])

\* C4: when the resolved key is DEMO_KEY in any letter case, from whichever
\* source, main exits with the 'DEMO_KEY is not allowed' message and builds no
\* URL, sends no request and writes no file.
C4_SentinelRejected ==
    SameIgnoringCase(api_key, DEMO_KEY) =>
        /\ mpc \in {"resolved", "exit"}
        /\ mpc = "exit" => Said("DEMO_KEY is not allowed")
        /\ url = None /\ fpc = "idle" /\ net = <<>> /\ out_path = None

\* the sentinel in lower case, read from the key file, has been rejected
C4_Witness ==
    /\ mpc = "exit" /\ Said("DEMO_KEY is not allowed")
    /\ ~Truthy(cli_value) /\ ~Truthy(env_value)
    /\ key_file[1] = "file"
    /\ api_key = <<"d", "e", "m", "o", "_", "k", "e", "y">>

NoImage == mpc = "exit" /\ Said("No downloadable image URL found")

\* an image URL has just been picked, or found missing
JustPicked == mpc = "picked" \/ NoImage

\* the key that is preferred for the media type of the response
Preferred ==
    IF "media_type" \in DOMAIN apod /\ apod["media_type"] = IMAGE
    THEN "hdurl" ELSE "thumbnail_url"

\* C5 as stated: the result is hdurl (thumbnail_url when the media type is not
\* "image") when present, otherwise url; it is None exactly when no candidate
\* is present, and then main exits with the error that names the media type
\* and the date, before any image download.
C5_PresentWins ==
    JustPicked =>
        /\ image_url = (IF Preferred \in DOMAIN apod THEN Some(apod[Preferred])
                        ELSE Get(apod, "url"))
        /\ image_url = None <=> (Preferred \notin DOMAIN apod /\ "url" \notin DOMAIN apod)
        /\ image_url = None =>
               /\ NoImage
               /\ msg = <<"No downloadable image URL found", Get(apod, "media_type"),
                          Get(apod, "date")>>
               /\ ~Contains(net, "image")

\* C5 as amended: the result is hdurl (thumbnail_url when the media type is not
\* "image") when present and not empty, otherwise url, which is None when url
\* is absent; main exits with the error that names the media type and the
\* date, before any image download, exactly when the result is None or empty.
C5_NonEmptyWins ==
    JustPicked =>
        /\ image_url = (IF Preferred \in DOMAIN apod /\ apod[Preferred] # <<>>
                        THEN Some(apod[Preferred])
                        ELSE Get(apod, "url"))
        /\ NoImage <=> (image_url = None \/ image_url = Some(<<>>))
        /\ NoImage =>
               /\ msg = <<"No downloadable image URL found", Get(apod, "media_type"),
                          Get(apod, "date")>>
               /\ ~Contains(net, "image")

\* an image response with an empty hdurl falls back to url
C5_Witness ==
    /\ mpc = "picked"
    /\ Get(apod, "media_type") = Some(IMAGE)
    /\ Get(apod, "hdurl") = Some(<<>>)
    /\ image_url = Some(<<"U">>)

\* the run has saved its image
Saved == out_path # None

\* C8 as stated: the image is saved at apod/D.png, D the date of the response.
C8_ResponseDated ==
    (Saved /\ apod_date # None) => out_path = Some(PathOf(apod_date[1]))

\* C8 as amended: the image is saved at apod/T.png, T the ISO form of the local
\* date on which the run saves it, whatever date the response carries; a rerun
\* on the same day overwrites that file, and every output file is the one file
\* of a day on which the program ran.
C8_TodayDated ==
    /\ Saved =>
           /\ out_path = Some(<<"~/Pictures/apod/">> \o IsoFormat(today) \o <<".png">>)
           /\ out_path[1] \in DOMAIN files
    /\ \A p \in DOMAIN files :
           \E d \in Days :
               /\ d[3] <= today[3]
               /\ p = <<"~/Pictures/apod/">> \o IsoFormat(d) \o <<".png">>
    /\ Cardinality(DOMAIN files) <= Cardinality({d \in Days : d[3] <= today[3]})

\* a second run on the same day has overwritten the file of the first, with a
\* response dated another day
C8_Witness ==
    /\ mpc = "saved" /\ run = 2
    /\ files[out_path[1]] = 2
    /\ Cardinality(DOMAIN files) = 1
    /\ apod_date # Some(IsoFormat(today))

\* C9: no failure of the osascript step or of the AppKit step leaves
\* set_wallpaper_macos_all: each is caught and logged, and the AppKit step is
\* attempted after any failure of the osascript step.
C9_BestEffort ==
    /\ spc # "raised"
    /\ spc = "returned" => Len(wlog) = 2

====
